---- MODULE Spec2Model ----
(***************************************************************************)
(* Model of docx_feature_copier (src/main.py): the OpenXML page-border     *)
(* patcher and the Word/COM transfer pipeline.                             *)
(*                                                                         *)
(* Specifications:                                                         *)
(*   SpecInsert   _insert_pgBorders_schema_order on one sectPr element     *)
(*   SpecPatch    patch_art_page_borders, applied repeatedly, over a wide  *)
(*                range of target document trees                           *)
(*   SpecArchive  the same steps over a wide range of target archives      *)
(*   SpecExtract  the same steps over a wide range of source documents     *)
(*   SpecPipeline transfer_layout, one run; every COM call may raise       *)
(*   SpecLayout   the same steps over a wide range of section counts, with *)
(*                every layout field and slot able to raise                *)
(*   SpecConcurrent  two runs of transfer_layout with distinct output      *)
(*                paths, interleaved at their file operations              *)
(* Indices of children are Python's (0-based); Seq positions are 1-based.  *)
(***************************************************************************)
EXTENDS Integers, Sequences, FiniteSets, TLC

VARIABLES
    \* ---- _insert_pgBorders_schema_order, one call
    ipc,          \* "idle" | "call" | "done"
    sectpr,       \* the sectPr element: its child list
    children,     \* local `children` (child list after the removal)
    insert_idx    \* local `insert_idx`

ivars == <<ipc, sectpr, children, insert_idx>>

VARIABLES
    \* ---- patch_art_page_borders, applied repeatedly to one target path
    ppc,          \* position in the patcher
    fs,           \* the file system: path -> file
    fs0,          \* the file system when the current application started
    pg,           \* local `pg` of patch_art_page_borders
    root,         \* local `root` of _set_pgBorders_in_all_sections
    zpos,         \* number of archive entries already written to zout
    ret,          \* outcome of the current application
    hist,         \* the target file after each application that returned True
    runs          \* applications started

pvars == <<ppc, fs, fs0, pg, root, zpos, ret, hist, runs>>

VARIABLES
    \* ---- transfer_layout, one run
    section_map,       \* parameter section_map
    src_count,         \* src.Sections.Count
    tgt_count,         \* work.Sections.Count
    n_styles,          \* len(src.Styles)
    source_exists,     \* os.path.isfile(source_docx)
    target_exists,     \* os.path.isfile(target_docx)
    flaky,             \* layout fields and slots whose COM access can raise
    tpc,               \* position in transfer_layout
    exc,               \* the exception in flight or raised, "none" if none
    host,              \* the Word instance: "none" | "running" | "quit"
    quit_attempts,     \* calls of word.Quit()
    quit_failed,       \* the last word.Quit() raised
    docs,              \* documents open in the host
    styles_seen,       \* styles the organizer loop has visited
    moved,             \* local `moved` of try_organizer_copy_all_styles
    ncopied,           \* OrganizerCopy calls that returned
    styles_done,       \* the organizer loop has visited every style
    fallback_entered,  \* copy_styles_via_template was called
    sec,               \* loop variable `i` of the layout loop
    layout,            \* target section -> source section each sub-copy used
    last_fault,        \* COM accesses that raised in the last section copied
    last_skipped,      \* fields and slots not copied in the last section copied
    tmpfiles,          \* temporary files that exist
    output_written,    \* the working copy exists at output_docx
    patched            \* result of patch_art_page_borders

tin == <<section_map, src_count, tgt_count, n_styles, source_exists,
         target_exists, flaky>>

tvars == <<tin, tpc, exc, host, quit_attempts, quit_failed, docs, styles_seen,
           moved, ncopied, styles_done, fallback_entered, sec, layout,
           last_fault, last_skipped, tmpfiles, output_written, patched>>

VARIABLES
    \* ---- transfer_layout, two runs side by side, each with its own host
    cpc,          \* run -> position in transfer_layout
    cexc,         \* run -> the exception in flight or raised, "none" if none
    tempdir,      \* file name in tempfile.gettempdir() -> run whose data it
                  \* holds, 0 when the file does not exist
    output_docx,  \* run -> run whose document is at its output path, 0 if none
    styles_from,  \* run -> run whose template its styles were copied from
    foreign       \* run -> what it did to files written by the other run

cvars == <<cpc, cexc, tempdir, output_docx, styles_from, foreign>>

vars == <<ivars, pvars, tvars, cvars>>

\* ------------------------------------------------------------------ bounds
MaxChildren    == 4   \* children of the sectPr given to one insertion
MaxTgtChildren == 2   \* children of a sectPr of a target document
MaxTgtPara     == 1   \* paragraph-level sectPr elements of a target document
MaxSrcPara     == 2   \* paragraph-level sectPr elements of a source document
MaxOtherParts  == 2   \* archive entries besides word/document.xml
MaxRuns        == 2   \* applications of the patcher to one target
MaxSrcSections == 2   \* sections of the source document
MaxTgtSections == 3   \* sections of the target document
MaxStyles      == 2   \* styles of the source document
NRuns          == 2   \* runs of transfer_layout side by side

\* ------------------------------------------------------------- XML elements
\* An element is its tag and its content (attributes, text, children); the
\* content of a pgBorders element is an id, every other content is 0.
after_tags  == {"type", "pgSz", "pgMar", "paperSrc"}
before_tags == {"lnNumType", "pgNumType", "cols", "docGrid"}
OtherTags   == {"titlePg"}

El(t, v) == [tag |-> t, val |-> v]

SrcPg == El("pgBorders", 1)   \* a fragment as found in a source package
OldPg == El("pgBorders", 9)   \* a fragment a target carries before patching

PlainElems == {El(t, 0) : t \in after_tags \cup before_tags \cup OtherTags}

SeqsUpTo(S, n) == UNION {[1..k -> S] : k \in 0..n}

\* ------------------------------------------------------ ElementTree helpers
RECURSIVE FindFrom(_, _, _)
FindFrom(s, t, i) ==
    IF i > Len(s) THEN 0
    ELSE IF s[i].tag = t THEN i ELSE FindFrom(s, t, i + 1)

\* Element.find(tag): position of the first child with that tag, 0 for None.
Find(s, t) == FindFrom(s, t, 1)

\* Element.remove(child) for the child at position i.
RemoveAt(s, i) == SubSeq(s, 1, i - 1) \o SubSeq(s, i + 1, Len(s))

\* list.insert(idx, e) with a 0-based idx in 0..len.
InsertAt(s, idx, e) == SubSeq(s, 1, idx) \o <<e>> \o SubSeq(s, idx + 1, Len(s))

_deepcopy(elem) == [tag |-> elem.tag, val |-> elem.val]

Min2(a, b) == IF a <= b THEN a ELSE b

\* ------------------------------------------- _insert_pgBorders_schema_order
RemoveExisting(sp) ==
    LET existing == Find(sp, "pgBorders")
    IN  IF existing # 0 THEN RemoveAt(sp, existing) ELSE sp

\* for i, ch in enumerate(children): if ch.tag in after_tags and i > after_idx
RECURSIVE AfterLoop(_, _, _)
AfterLoop(ch, p, after_idx) ==
    IF p > Len(ch) THEN after_idx
    ELSE AfterLoop(ch, p + 1,
                   IF ch[p].tag \in after_tags /\ (p - 1) > after_idx
                   THEN p - 1 ELSE after_idx)

AfterIdx(ch) == AfterLoop(ch, 1, -1)

\* for i, ch in enumerate(children): if ch.tag in before_tags: ...; break
RECURSIVE BeforeLoop(_, _)
BeforeLoop(ch, p) ==
    IF p > Len(ch) THEN Len(ch)
    ELSE IF ch[p].tag \in before_tags THEN p - 1 ELSE BeforeLoop(ch, p + 1)

BeforeIdx(ch) == BeforeLoop(ch, 1)

InsertIdxNoClamp(ch) == AfterIdx(ch) + 1

InsertIdx(ch) == Min2(AfterIdx(ch) + 1, BeforeIdx(ch))

InsertKeepExisting(sp, pgBorders_elem) ==
    InsertAt(sp, InsertIdx(sp), _deepcopy(pgBorders_elem))

InsertPgBorders(sp, pgBorders_elem) ==
    LET ch == RemoveExisting(sp)
    IN  InsertAt(ch, InsertIdx(ch), _deepcopy(pgBorders_elem))

\* ------------------------------------------------------------ document tree
\* A document tree is the sectPr elements the patcher can see, in document
\* order: those embedded in paragraph properties (w:p/w:pPr/w:sectPr) and
\* those that are children of w:body. A sectPr is its child list.
Tree(b, p) == [body |-> b, para |-> p]

NoneEl == El("None", 0)       \* Python's None where an element is expected

TokP  == El("<w:p>", 0)
TokEP == El("</w:p>", 0)
TokS  == El("<w:sectPr>", 0)
TokES == El("</w:sectPr>", 0)

RECURSIVE SerParas(_)
SerParas(ps) ==
    IF ps = <<>> THEN <<>>
    ELSE <<TokP, TokS>> \o Head(ps) \o <<TokES, TokEP>> \o SerParas(Tail(ps))

RECURSIVE SerBody(_)
SerBody(bs) ==
    IF bs = <<>> THEN <<>>
    ELSE <<TokS>> \o Head(bs) \o <<TokES>> \o SerBody(Tail(bs))

\* ET.tostring(root): the tree written out as a flat run of tokens.
tostring(t) == SerParas(t.para) \o SerBody(t.body)

RECURSIVE ParseLoop(_, _, _, _, _)
ParseLoop(xml, i, inP, cur, t) ==
    IF i > Len(xml) THEN t
    ELSE LET tok == xml[i] IN
         IF tok = TokP THEN ParseLoop(xml, i + 1, TRUE, cur, t)
         ELSE IF tok = TokEP THEN ParseLoop(xml, i + 1, FALSE, cur, t)
         ELSE IF tok = TokS THEN ParseLoop(xml, i + 1, inP, <<>>, t)
         ELSE IF tok = TokES THEN
              ParseLoop(xml, i + 1, inP, <<>>,
                        IF inP THEN Tree(t.body, Append(t.para, cur))
                               ELSE Tree(Append(t.body, cur), t.para))
         ELSE ParseLoop(xml, i + 1, inP, Append(cur, tok), t)

\* ET.fromstring(xml)
fromstring(xml) == ParseLoop(xml, 1, FALSE, <<>>, Tree(<<>>, <<>>))

\* ------------------------------------------------------------------ archive
DOC    == "word/document.xml"
SOURCE == "source.docx"
OUTPUT == "output.docx"
TMP    == "output.docx.tmp"
Paths  == {SOURCE, OUTPUT, TMP}

NoFile == [exists |-> FALSE, closed |-> FALSE, entries |-> <<>>]
Zip(es) == [exists |-> TRUE, closed |-> TRUE, entries |-> es]
Entry(n, d) == [name |-> n, data |-> d]

\* zipfile.ZipFile(path, "r") succeeds on a file with a central directory.
ZipReadable(f) == f.exists /\ f.closed

HasEntry(f, n) == \E i \in 1..Len(f.entries) : f.entries[i].name = n

\* zin.read(name): the data of the (last) entry of that name.
ZipRead(f, n) ==
    LET S == {i \in 1..Len(f.entries) : f.entries[i].name = n}
        last == CHOOSE i \in S : \A j \in S : j <= i
    IN  f.entries[last].data

\* --------------------------------------------- _extract_pgBorders_from_source
FindPg(sp) == LET i == Find(sp, "pgBorders") IN IF i = 0 THEN NoneEl ELSE sp[i]

_extract_pgBorders_from_source(t) ==
    LET b  == t.body
        p  == t.para
        pb == IF b # <<>> THEN FindPg(b[Len(b)]) ELSE NoneEl
        pp == IF p # <<>> THEN FindPg(p[Len(p)]) ELSE NoneEl
    IN  IF pb # NoneEl THEN pb ELSE pp

\* --------------------------------------------- _set_pgBorders_in_all_sections
\* The two findall loops: every body-level and every paragraph-level sectPr.
SetAll(t, frag) ==
    Tree([i \in 1..Len(t.body) |-> InsertPgBorders(t.body[i], frag)],
         [i \in 1..Len(t.para) |-> InsertPgBorders(t.para[i], frag)])

changed(t) == t.body # <<>> \/ t.para # <<>>

new_docx_in_place(target_docx) == target_docx

new_docx(target_docx) == IF target_docx = OUTPUT THEN TMP ELSE target_docx

EntryDataAllDocument(zin, item, r) == tostring(r)

\* data = zin.read(item.filename); replaced for word/document.xml
EntryData(zin, item, r) ==
    IF item.name = DOC THEN tostring(r) ELSE ZipRead(zin, item.name)

\* ------------------------------------------------------ patch_art_page_borders
AfterExtractNoCheck(frag) == "read_target"

\* if pg is None: return False
AfterExtract(frag) == IF frag = NoneEl THEN "done" ELSE "read_target"

Raise ==
    /\ ppc' = "raised"
    /\ ret' = "raised"

\* _extract_pgBorders_from_source and the test of its result
PatchExtract ==
    /\ ppc = "extract"
    /\ IF ZipReadable(fs[SOURCE]) /\ HasEntry(fs[SOURCE], DOC)
       THEN /\ pg' = _extract_pgBorders_from_source(
                         fromstring(ZipRead(fs[SOURCE], DOC)))
            /\ ppc' = AfterExtract(pg')
            /\ ret' = IF ppc' = "done" THEN "False" ELSE ret
       ELSE /\ Raise
            /\ pg' = pg
    /\ UNCHANGED <<fs, fs0, root, zpos, hist, runs, ivars, tvars, cvars>>

\* _set_pgBorders_in_all_sections up to `if not changed: return False`
PatchReadTarget ==
    /\ ppc = "read_target"
    /\ IF ZipReadable(fs[OUTPUT]) /\ HasEntry(fs[OUTPUT], DOC)
       THEN LET t == fromstring(ZipRead(fs[OUTPUT], DOC)) IN
            IF ~changed(t)
            THEN /\ root' = t
                 /\ ppc' = "done"
                 /\ ret' = "False"
            ELSE IF pg = NoneEl
            THEN /\ Raise                \* _deepcopy(None)
                 /\ root' = t
            ELSE /\ root' = SetAll(t, pg)
                 /\ ppc' = "open_tmp"
                 /\ ret' = ret
       ELSE /\ Raise
            /\ root' = root
    /\ UNCHANGED <<fs, fs0, pg, zpos, hist, runs, ivars, tvars, cvars>>

\* with ZipFile(target_docx, "r") as zin, ZipFile(new_docx, "w") as zout
PatchOpenTmp ==
    /\ ppc = "open_tmp"
    /\ IF ZipReadable(fs[OUTPUT])
       THEN /\ fs' = [fs EXCEPT ![new_docx(OUTPUT)] =
                         [exists |-> TRUE, closed |-> FALSE, entries |-> <<>>]]
            /\ zpos' = 0
            /\ ppc' = "write"
            /\ ret' = ret
       ELSE /\ Raise
            /\ UNCHANGED <<fs, zpos>>
    /\ UNCHANGED <<fs0, pg, root, hist, runs, ivars, tvars, cvars>>

\* one round of `for item in zin.infolist()`
PatchWriteEntry ==
    /\ ppc = "write"
    /\ zpos < Len(fs[OUTPUT].entries)
    /\ LET item == fs[OUTPUT].entries[zpos + 1]
           data == EntryData(fs[OUTPUT], item, root)
       IN  fs' = [fs EXCEPT ![new_docx(OUTPUT)].entries =
                      Append(@, Entry(item.name, data))]
    /\ zpos' = zpos + 1
    /\ UNCHANGED <<ppc, fs0, pg, root, ret, hist, runs, ivars, tvars, cvars>>

\* leaving the with block: zout.close() writes the central directory
PatchCloseTmp ==
    /\ ppc = "write"
    /\ zpos = Len(fs[OUTPUT].entries)
    /\ fs' = [fs EXCEPT ![new_docx(OUTPUT)].closed = TRUE]
    /\ ppc' = "replace"
    /\ UNCHANGED <<fs0, pg, root, zpos, ret, hist, runs, ivars, tvars, cvars>>

\* os.replace(new_docx, target_docx); return True
PatchReplace ==
    /\ ppc = "replace"
    /\ fs' = IF new_docx(OUTPUT) = OUTPUT THEN fs
             ELSE [fs EXCEPT ![OUTPUT] = fs[new_docx(OUTPUT)],
                             ![new_docx(OUTPUT)] = NoFile]
    /\ ppc' = "done"
    /\ ret' = "True"
    /\ hist' = Append(hist, fs'[OUTPUT])
    /\ UNCHANGED <<fs0, pg, root, zpos, runs, ivars, tvars, cvars>>

\* An archive read or write, or the rename, fails with OSError. Leaving the
\* with block on the exception closes zout, which may fail as well.
PatchIOError ==
    /\ ppc \in {"extract", "read_target", "open_tmp", "write", "replace"}
    /\ Raise
    /\ \E c \in BOOLEAN :
           fs' = IF ppc = "write"
                 THEN [fs EXCEPT ![new_docx(OUTPUT)].closed = c]
                 ELSE fs
    /\ UNCHANGED <<fs0, pg, root, zpos, hist, runs, ivars, tvars, cvars>>

\* the patcher is applied again to the same source and target
PatchAgain ==
    /\ ppc = "done"
    /\ runs < MaxRuns
    /\ runs' = runs + 1
    /\ ppc' = "extract"
    /\ ret' = "none"
    /\ fs0' = fs
    /\ UNCHANGED <<fs, pg, root, zpos, hist, ivars, tvars, cvars>>

\* ------------------------------------------------------------ layout copies
\* One field, flag or slot that a layout sub-copy reads and writes over COM.
It(g, i, n) == [grp |-> g, idx |-> i, name |-> n]

\* copy_page_setup: the twelve plain assignments, in order, then the two
\* attributes set inside try/except.
PageSetupPlain ==
    <<"TopMargin", "BottomMargin", "LeftMargin", "RightMargin", "Gutter",
      "HeaderDistance", "FooterDistance", "PageWidth", "PageHeight",
      "Orientation", "DifferentFirstPageHeaderFooter",
      "OddAndEvenPagesHeaderFooter">>
PageSetupGuarded == {"MirrorMargins", "TwoPagesOnOne"}

BorderFlags == {"Enable", "DistanceFrom", "SurroundHeader", "SurroundFooter",
                "JoinBorders", "AlwaysInFront"}
BorderArt   == {"ArtStyle", "ArtWidth"}
BorderSides == {1, 2, 3, 4}
BorderLine  == <<"LineStyle", "LineWidth", "Color">>
BorderDist  == {"DistanceFromTop", "DistanceFromBottom", "DistanceFromLeft",
                "DistanceFromRight"}
HFTypes     == {1, 2, 3}

PageSetupItems ==
    {It("PageSetup", 0, PageSetupPlain[k]) : k \in 1..Len(PageSetupPlain)}
        \cup {It("PageSetup", 0, n) : n \in PageSetupGuarded}
BorderItems ==
    {It("Borders", 0, n) : n \in BorderFlags \cup BorderArt}
        \cup {It("Borders", s, BorderLine[k]) : s \in BorderSides, k \in 1..Len(BorderLine)}
        \cup {It("Borders", s, n) : s \in BorderSides, n \in BorderDist}
HFItems ==
    {It("Headers", t, "Range") : t \in HFTypes} \cup {It("Footers", t, "Range") : t \in HFTypes}
LayoutItems == PageSetupItems \cup BorderItems \cup HFItems

\* The COM accesses that raise during the copy of one section: none, or one
\* of those that can raise on this host.
FaultSets(can_raise) == {{}} \cup {{x} : x \in can_raise}

\* Assignments of a straight-line run: those before the first that raises.
RECURSIVE RunPlain(_, _, _, _, _)
RunPlain(g, i, names, k, F) ==
    IF k > Len(names) THEN [copied |-> {}, raised |-> FALSE]
    ELSE IF It(g, i, names[k]) \in F THEN [copied |-> {}, raised |-> TRUE]
    ELSE LET r == RunPlain(g, i, names, k + 1, F)
         IN  [copied |-> {It(g, i, names[k])} \cup r.copied, raised |-> r.raised]

copy_page_setup(F) ==
    LET plain == RunPlain("PageSetup", 0, PageSetupPlain, 1, F)
    IN  IF plain.raised THEN plain
        ELSE [copied |-> plain.copied \cup
                         ({It("PageSetup", 0, n) : n \in PageSetupGuarded} \ F),
              raised |-> FALSE]

\* One side: LineStyle, LineWidth, Color in one try block, then each distance
\* in a try block of its own.
CopyBorderSide(s, F) ==
    LET line == RunPlain("Borders", s, BorderLine, 1, F)
    IN  IF line.raised THEN line.copied
        ELSE line.copied \cup ({It("Borders", s, n) : n \in BorderDist} \ F)

copy_page_borders_basic(F) ==
    [copied |-> ({It("Borders", 0, n) : n \in BorderFlags \cup BorderArt} \ F)
                    \cup UNION {CopyBorderSide(s, F) : s \in BorderSides},
     raised |-> FALSE]

\* _copy_single_hf per slot, each call inside try/except
copy_headers_footers(F) == [copied |-> HFItems \ F, raised |-> FALSE]

\* -------------------------------------------------- try_organizer_copy_all_styles
\* A style of the source: its name cannot be read ("unnamed"), OrganizerCopy
\* returns ("ok") or OrganizerCopy raises ("fail").
StyleKinds == {"unnamed", "ok", "fail"}

MovedCountingAttempts(m, kind) == IF kind # "unnamed" THEN m + 1 ELSE m

MovedAfter(m, kind) == IF kind = "ok" THEN m + 1 ELSE m

\* ------------------------------------------------------------ transfer_layout
s_idx_last(i) == IF section_map /\ i <= src_count THEN i ELSE src_count

\* s_idx = i if (section_map and i <= src_count) else 1
s_idx(i) == IF section_map /\ i <= src_count THEN i ELSE 1

NoLayout == [ps |-> 0, bd |-> 0, hf |-> 0]

TEMP_DOTX     == "style_source_tmp.dotx"
TEMP_PREPATCH == "docx_pre_patch.docx"
TEMP_ARCHIVE  == "output.docx.tmp"

\* raise inside the outer try block only / inside the inner try block
RaiseOuter(e) ==
    /\ exc' = e
    /\ tpc' = "finally_outer"

RaiseInner(e) ==
    /\ exc' = e
    /\ tpc' = "finally_inner"

\* lines 228-229: both paths must name existing files
\* the source path alone is tested
isfile_source_only(src_is_file, tgt_is_file) == src_is_file

\* lines 228-229: both os.path.isfile tests must pass
isfile_both(src_is_file, tgt_is_file) == src_is_file /\ tgt_is_file

TValidate ==
    /\ tpc = "validate"
    /\ IF isfile_both(source_exists, target_exists)
       THEN /\ tpc' = "dispatch"
            /\ exc' = exc
       ELSE /\ tpc' = "raised"
            /\ exc' = "FileNotFoundError"
    /\ UNCHANGED <<tin, host, quit_attempts, quit_failed, docs, styles_seen,
                   moved, ncopied, styles_done, fallback_entered, sec,
                   layout, last_fault, last_skipped, tmpfiles,
                   output_written, patched, ivars, pvars, cvars>>

\* lines 235-236: CoInitialize, Dispatch("Word.Application")
TDispatch ==
    /\ tpc = "dispatch"
    /\ \E fail \in BOOLEAN :
          IF fail
          THEN /\ tpc' = "raised"
               /\ exc' = "Dispatch"
               /\ host' = host
          ELSE /\ tpc' = "visible"
               /\ exc' = exc
               /\ host' = "running"
    /\ UNCHANGED <<tin, quit_attempts, quit_failed, docs, styles_seen,
                   moved, ncopied, styles_done, fallback_entered, sec,
                   layout, last_fault, last_skipped, tmpfiles,
                   output_written, patched, ivars, pvars, cvars>>

\* line 237: word.Visible = bool(visible), before the try block
TVisible ==
    /\ tpc = "visible"
    /\ \E fail \in BOOLEAN :
          IF fail
          THEN /\ tpc' = "raised"
               /\ exc' = "Visible"
          ELSE /\ tpc' = "config"
               /\ exc' = exc
    /\ UNCHANGED <<tin, host, quit_attempts, quit_failed, docs, styles_seen,
                   moved, ncopied, styles_done, fallback_entered, sec,
                   layout, last_fault, last_skipped, tmpfiles,
                   output_written, patched, ivars, pvars, cvars>>

\* lines 239-243: DisplayAlerts, ScreenUpdating, EnableEvents; except: pass
TConfig ==
    /\ tpc = "config"
    /\ tpc' = "open_src"
    /\ UNCHANGED <<tin, exc, host, quit_attempts, quit_failed, docs,
                   styles_seen, moved, ncopied, styles_done,
                   fallback_entered, sec, layout, last_fault, last_skipped,
                   tmpfiles, output_written, patched, ivars, pvars, cvars>>

\* lines 246-249: src = word.Documents.Open(source_docx, ReadOnly=True)
TOpenSrc ==
    /\ tpc = "open_src"
    /\ \E fail \in BOOLEAN :
          IF fail
          THEN /\ RaiseOuter("Open")
               /\ docs' = docs
          ELSE /\ tpc' = "open_tgt"
               /\ exc' = exc
               /\ docs' = docs \cup {"src"}
    /\ UNCHANGED <<tin, host, quit_attempts, quit_failed, styles_seen,
                   moved, ncopied, styles_done, fallback_entered, sec,
                   layout, last_fault, last_skipped, tmpfiles,
                   output_written, patched, ivars, pvars, cvars>>

\* lines 250-253: tgt = word.Documents.Open(target_docx, ReadOnly=False)
TOpenTgt ==
    /\ tpc = "open_tgt"
    /\ \E fail \in BOOLEAN :
          IF fail
          THEN /\ RaiseOuter("Open")
               /\ docs' = docs
          ELSE /\ tpc' = "save_copy"
               /\ exc' = exc
               /\ docs' = docs \cup {"tgt"}
    /\ UNCHANGED <<tin, host, quit_attempts, quit_failed, styles_seen,
                   moved, ncopied, styles_done, fallback_entered, sec,
                   layout, last_fault, last_skipped, tmpfiles,
                   output_written, patched, ivars, pvars, cvars>>

\* save_docx: SaveCopyAs, then SaveAs2, then SaveAs; raises when all three do
save_docx(fails) == \E k \in 1..3 : ~fails[k]

\* line 257: save_docx(tgt, output_docx)
TSaveCopy ==
    /\ tpc = "save_copy"
    /\ \E fails \in [1..3 -> BOOLEAN] :
          IF save_docx(fails)
          THEN /\ tpc' = "close_tgt"
               /\ exc' = exc
               /\ output_written' = TRUE
          ELSE /\ RaiseOuter("SaveAs")
               /\ output_written' = output_written
    /\ UNCHANGED <<tin, host, quit_attempts, quit_failed, docs, styles_seen,
                   moved, ncopied, styles_done, fallback_entered, sec,
                   layout, last_fault, last_skipped, tmpfiles, patched,
                   ivars, pvars, cvars>>

\* line 259: tgt.Close(False)
TCloseTgt ==
    /\ tpc = "close_tgt"
    /\ \E fail \in BOOLEAN :
          IF fail
          THEN /\ RaiseOuter("Close")
               /\ docs' = docs
          ELSE /\ tpc' = "open_work"
               /\ exc' = exc
               /\ docs' = docs \ {"tgt"}
    /\ UNCHANGED <<tin, host, quit_attempts, quit_failed, styles_seen,
                   moved, ncopied, styles_done, fallback_entered, sec,
                   layout, last_fault, last_skipped, tmpfiles,
                   output_written, patched, ivars, pvars, cvars>>

\* lines 260-263: work = word.Documents.Open(output_docx, ReadOnly=False)
TOpenWork ==
    /\ tpc = "open_work"
    /\ \E fail \in BOOLEAN :
          IF fail
          THEN /\ RaiseOuter("Open")
               /\ docs' = docs
          ELSE /\ tpc' = "styles"
               /\ exc' = exc
               /\ docs' = docs \cup {"work"}
    /\ UNCHANGED <<tin, host, quit_attempts, quit_failed, styles_seen,
                   moved, ncopied, styles_done, fallback_entered, sec,
                   layout, last_fault, last_skipped, tmpfiles,
                   output_written, patched, ivars, pvars, cvars>>

\* one round of `for st in src_doc.Styles` (lines 102-118)
TStyle ==
    /\ tpc = "styles"
    /\ styles_seen < n_styles
    /\ \E kind \in StyleKinds :
          /\ moved' = MovedAfter(moved, kind)
          /\ ncopied' = IF kind = "ok" THEN ncopied + 1 ELSE ncopied
    /\ styles_seen' = styles_seen + 1
    /\ UNCHANGED <<tin, tpc, exc, host, quit_attempts, quit_failed, docs,
                   styles_done, fallback_entered, sec, layout, last_fault,
                   last_skipped, tmpfiles, output_written, patched, ivars,
                   pvars, cvars>>

\* lines 119, 268-270: return moved; if moved == 0
TStylesEnd ==
    /\ tpc = "styles"
    /\ styles_seen = n_styles
    /\ styles_done' = TRUE
    /\ tpc' = IF moved = 0 THEN "fallback" ELSE "layout"
    /\ UNCHANGED <<tin, exc, host, quit_attempts, quit_failed, docs,
                   styles_seen, moved, ncopied, fallback_entered, sec,
                   layout, last_fault, last_skipped, tmpfiles,
                   output_written, patched, ivars, pvars, cvars>>

\* copy_styles_via_template (lines 121-131): save the source as a template,
\* CopyStylesFromTemplate, and os.remove in the finally block (which may fail)
TFallback ==
    /\ tpc = "fallback"
    /\ fallback_entered' = TRUE
    /\ \E saved \in BOOLEAN, copied \in BOOLEAN, removed \in BOOLEAN :
          /\ tmpfiles' = IF saved /\ ~removed THEN tmpfiles \cup {TEMP_DOTX}
                         ELSE tmpfiles
          /\ IF saved /\ copied
             THEN /\ tpc' = "layout"
                  /\ exc' = exc
             ELSE RaiseInner(IF saved THEN "CopyStylesFromTemplate" ELSE "SaveAs")
    /\ UNCHANGED <<tin, host, quit_attempts, quit_failed, docs, styles_seen,
                   moved, ncopied, styles_done, sec, layout, last_fault,
                   last_skipped, output_written, patched, ivars, pvars, cvars>>

\* one round of `for i in range(1, tgt_count + 1)` (lines 278-283)
TLayoutSection ==
    /\ tpc = "layout"
    /\ sec <= tgt_count
    /\ \E F \in FaultSets(flaky) :
          LET ps == copy_page_setup(F)
              bd == copy_page_borders_basic(F)
              hf == copy_headers_footers(F)
          IN  /\ last_fault' = F
              /\ IF ps.raised
                 THEN /\ layout' = [layout EXCEPT ![sec] = [ps |-> s_idx(sec), bd |-> 0, hf |-> 0]]
                      /\ last_skipped' = LayoutItems \ ps.copied
                      /\ RaiseInner("layout")
                      /\ sec' = sec
                 ELSE /\ layout' = [layout EXCEPT ![sec] =
                                       [ps |-> s_idx(sec), bd |-> s_idx(sec), hf |-> s_idx(sec)]]
                      /\ last_skipped' = LayoutItems \ (ps.copied \cup bd.copied \cup hf.copied)
                      /\ sec' = sec + 1
                      /\ UNCHANGED <<tpc, exc>>
    /\ UNCHANGED <<tin, host, quit_attempts, quit_failed, docs, styles_seen,
                   moved, ncopied, styles_done, fallback_entered, tmpfiles,
                   output_written, patched, ivars, pvars, cvars>>

\* lines 285-291: work.Save(); on failure save_docx to a temp file and copy2
TSave ==
    /\ tpc = "layout"
    /\ sec > tgt_count
    /\ last_fault' = {}
    /\ last_skipped' = {}
    /\ \E save_fails \in BOOLEAN, fails \in [1..3 -> BOOLEAN], copy_fails \in BOOLEAN :
          IF ~save_fails
          THEN /\ tpc' = "finally_inner"
               /\ UNCHANGED <<exc, tmpfiles>>
          ELSE IF ~save_docx(fails)
          THEN /\ RaiseInner("SaveAs")
               /\ tmpfiles' = tmpfiles
          ELSE /\ tmpfiles' = tmpfiles \cup {TEMP_PREPATCH}
               /\ IF copy_fails THEN RaiseInner("copy2")
                  ELSE /\ tpc' = "finally_inner"
                       /\ exc' = exc
    /\ UNCHANGED <<tin, host, quit_attempts, quit_failed, docs, styles_seen,
                   moved, ncopied, styles_done, fallback_entered, sec,
                   layout, output_written, patched, ivars, pvars, cvars>>

\* lines 293-298: src.Close(False), work.Close(False), each except: pass
TFinallyInner ==
    /\ tpc = "finally_inner"
    /\ \E closed \in SUBSET {"src", "work"} : docs' = docs \ closed
    /\ tpc' = "finally_outer"
    /\ UNCHANGED <<tin, exc, host, quit_attempts, quit_failed, styles_seen,
                   moved, ncopied, styles_done, fallback_entered, sec,
                   layout, last_fault, last_skipped, tmpfiles,
                   output_written, patched, ivars, pvars, cvars>>

\* lines 300-304: word.Quit() inside try/except, CoUninitialize; the pending
\* exception, if any, then leaves transfer_layout
TFinallyOuter ==
    /\ tpc = "finally_outer"
    /\ quit_attempts' = quit_attempts + 1
    /\ \E fail \in BOOLEAN :
          /\ quit_failed' = fail
          /\ host' = IF fail THEN host ELSE "quit"
          /\ docs' = IF fail THEN docs ELSE {}
    /\ tpc' = IF exc = "none" THEN "patch" ELSE "raised"
    /\ UNCHANGED <<tin, exc, styles_seen, moved, ncopied, styles_done,
                   fallback_entered, sec, layout, last_fault, last_skipped,
                   tmpfiles, output_written, patched, ivars, pvars, cvars>>

\* lines 306-314: patch_art_page_borders(source_docx, output_docx), whose
\* steps are the Patch* actions; return output_docx
TPatch ==
    /\ tpc = "patch"
    /\ \E r \in {"True", "False", "raised"}, left \in BOOLEAN :
          /\ patched' = r
          /\ IF r = "raised"
             THEN /\ tpc' = "raised"
                  /\ exc' = "patch"
                  /\ tmpfiles' = IF left THEN tmpfiles \cup {TEMP_ARCHIVE} ELSE tmpfiles
             ELSE /\ tpc' = "returned"
                  /\ UNCHANGED <<exc, tmpfiles>>
    /\ UNCHANGED <<tin, host, quit_attempts, quit_failed, docs, styles_seen,
                   moved, ncopied, styles_done, fallback_entered, sec,
                   layout, last_fault, last_skipped, output_written, ivars,
                   pvars, cvars>>


\* ------------------------------------------- transfer_layout, concurrent runs
\* Each run has its own source, target and output path and its own host; the
\* steps between two file operations are taken as one.
Runs == 1..NRuns

TempNames == {TEMP_DOTX, TEMP_PREPATCH}

\* run r does `kind` to a file holding the data of run `owner`
Touch(r, kind, owner) ==
    [foreign EXCEPT ![r] = IF owner \in {0, r} THEN @ ELSE @ \cup {kind}]

Goto(r, at) == cpc' = [cpc EXCEPT ![r] = at]

CRaise(r, what) == cexc' = [cexc EXCEPT ![r] = what]

\* lines 228-263: validation, host, documents, tgt.SaveCopyAs(output_docx)
CStart(r) ==
    /\ cpc[r] = "start"
    /\ \E ok \in BOOLEAN :
          IF ok
          THEN /\ output_docx' = [output_docx EXCEPT ![r] = r]
               /\ Goto(r, "styles")
               /\ cexc' = cexc
          ELSE /\ CRaise(r, "open")
               /\ Goto(r, "ended")
               /\ output_docx' = output_docx
    /\ UNCHANGED <<tempdir, styles_from, foreign, ivars, pvars, tvars>>

\* lines 266-270: the organizer pass and `if moved == 0`
CStyles(r) ==
    /\ cpc[r] = "styles"
    /\ \E m \in 0..1 : Goto(r, IF m = 0 THEN "fb_save" ELSE "layout")
    /\ UNCHANGED <<cexc, tempdir, output_docx, styles_from, foreign,
                   ivars, pvars, tvars>>

\* lines 124-127: src_doc.SaveCopyAs(tmp_dotx), else save_docx(src_doc, tmp_dotx)
CFallbackSave(r) ==
    /\ cpc[r] = "fb_save"
    /\ \E saved \in BOOLEAN :
          IF saved
          THEN /\ tempdir' = [tempdir EXCEPT ![TEMP_DOTX] = r]
               /\ foreign' = Touch(r, "overwrote", tempdir[TEMP_DOTX])
               /\ Goto(r, "fb_copy")
               /\ cexc' = cexc
          ELSE /\ CRaise(r, "SaveAs")
               /\ Goto(r, "fb_remove")
               /\ UNCHANGED <<tempdir, foreign>>
    /\ UNCHANGED <<output_docx, styles_from, ivars, pvars, tvars>>

\* line 128: work_doc.CopyStylesFromTemplate(tmp_dotx)
CFallbackCopy(r) ==
    /\ cpc[r] = "fb_copy"
    /\ Goto(r, "fb_remove")
    /\ \E ok \in BOOLEAN :
          IF ok /\ tempdir[TEMP_DOTX] # 0
          THEN /\ styles_from' = [styles_from EXCEPT ![r] = tempdir[TEMP_DOTX]]
               /\ foreign' = Touch(r, "read", tempdir[TEMP_DOTX])
               /\ cexc' = cexc
          ELSE /\ CRaise(r, "CopyStylesFromTemplate")
               /\ UNCHANGED <<styles_from, foreign>>
    /\ UNCHANGED <<tempdir, output_docx, ivars, pvars, tvars>>

\* lines 129-131: finally: os.remove(tmp_dotx), a failure is swallowed
CFallbackRemove(r) ==
    /\ cpc[r] = "fb_remove"
    /\ Goto(r, IF cexc[r] = "none" THEN "layout" ELSE "close")
    /\ \E removed \in BOOLEAN :
          IF removed /\ tempdir[TEMP_DOTX] # 0
          THEN /\ tempdir' = [tempdir EXCEPT ![TEMP_DOTX] = 0]
               /\ foreign' = Touch(r, "deleted", tempdir[TEMP_DOTX])
          ELSE UNCHANGED <<tempdir, foreign>>
    /\ UNCHANGED <<cexc, output_docx, styles_from, ivars, pvars, tvars>>

\* lines 275-287: the layout loop and work.Save()
CLayoutSave(r) ==
    /\ cpc[r] = "layout"
    /\ \E outcome \in {"saved", "save_raised", "layout_raised"} :
          /\ Goto(r, CASE outcome = "saved" -> "close"
                       [] outcome = "save_raised" -> "pre_save"
                       [] OTHER -> "close")
          /\ IF outcome = "layout_raised" THEN CRaise(r, "layout")
             ELSE cexc' = cexc
    /\ UNCHANGED <<tempdir, output_docx, styles_from, foreign,
                   ivars, pvars, tvars>>

\* lines 289-290: save_docx(work, tmp)
CPrePatchSave(r) ==
    /\ cpc[r] = "pre_save"
    /\ \E saved \in BOOLEAN :
          IF saved
          THEN /\ tempdir' = [tempdir EXCEPT ![TEMP_PREPATCH] = r]
               /\ foreign' = Touch(r, "overwrote", tempdir[TEMP_PREPATCH])
               /\ Goto(r, "pre_copy")
               /\ cexc' = cexc
          ELSE /\ CRaise(r, "SaveAs")
               /\ Goto(r, "close")
               /\ UNCHANGED <<tempdir, foreign>>
    /\ UNCHANGED <<output_docx, styles_from, ivars, pvars, tvars>>

\* line 291: shutil.copy2(tmp, output_docx)
CPrePatchCopy(r) ==
    /\ cpc[r] = "pre_copy"
    /\ Goto(r, "close")
    /\ \E ok \in BOOLEAN :
          IF ok /\ tempdir[TEMP_PREPATCH] # 0
          THEN /\ output_docx' = [output_docx EXCEPT ![r] = tempdir[TEMP_PREPATCH]]
               /\ foreign' = Touch(r, "read", tempdir[TEMP_PREPATCH])
               /\ cexc' = cexc
          ELSE /\ CRaise(r, "copy2")
               /\ UNCHANGED <<output_docx, foreign>>
    /\ UNCHANGED <<tempdir, styles_from, ivars, pvars, tvars>>

\* lines 293-304: both finally blocks; an exception in flight leaves the run
CClose(r) ==
    /\ cpc[r] = "close"
    /\ Goto(r, IF cexc[r] = "none" THEN "patch" ELSE "ended")
    /\ UNCHANGED <<cexc, tempdir, output_docx, styles_from, foreign,
                   ivars, pvars, tvars>>

\* lines 306-314: patch_art_page_borders(source_docx, output_docx); it reads
\* the run's source and rewrites the run's output through output_docx + ".tmp"
CPatch(r) ==
    /\ cpc[r] = "patch"
    /\ Goto(r, "ended")
    /\ \E raised \in BOOLEAN :
          IF raised THEN CRaise(r, "patch") ELSE cexc' = cexc
    /\ UNCHANGED <<tempdir, output_docx, styles_from, foreign,
                   ivars, pvars, tvars>>
\* ----------------------------------------------------------- initial states
InsertIdle ==
    /\ ipc = "idle"
    /\ sectpr = <<>>
    /\ children = <<>>
    /\ insert_idx = 0

PatchIdle ==
    /\ ppc = "idle"
    /\ fs = [p \in Paths |-> NoFile]
    /\ fs0 = [p \in Paths |-> NoFile]
    /\ pg = NoneEl
    /\ root = Tree(<<>>, <<>>)
    /\ zpos = 0
    /\ ret = "none"
    /\ hist = <<>>
    /\ runs = 0

\* Source sectPr elements: without a fragment, and with one of two fragments.
SrcPg2 == El("pgBorders", 2)
SrcSectPrs == { <<El("pgSz", 0)>>,
                <<El("pgSz", 0), SrcPg>>,
                <<SrcPg2, El("cols", 0)>> }

\* Target sectPr elements: any order of children, at most one pgBorders (the
\* target of the patcher is the file Word has just saved, main.py:287-308;
\* CT_SectPr holds at most one pgBorders).
TgtElems == {El("pgSz", 0), El("cols", 0), OldPg}
CountTag(s, t) == Cardinality({i \in 1..Len(s) : s[i].tag = t})
TgtSectPrs == {s \in SeqsUpTo(TgtElems, MaxTgtChildren) : CountTag(s, "pgBorders") <= 1}

PartData(n) == <<El(n, 0)>>
OtherPartNames == {"[Content_Types].xml", "word/styles.xml", "word/media/image1.png"}

\* Archives: entries in any order, names distinct, with or without the body part.
Injective(s) == \A i, j \in 1..Len(s) : i # j => s[i] # s[j]
NameLists ==
    {s \in SeqsUpTo(OtherPartNames \cup {DOC}, MaxOtherParts + 1) :
        /\ Injective(s)
        /\ Cardinality({i \in 1..Len(s) : s[i] # DOC}) <= MaxOtherParts}
Archive(names, t) ==
    Zip([i \in 1..Len(names) |->
            Entry(names[i], IF names[i] = DOC THEN tostring(t) ELSE PartData(names[i]))])

SourceWith(t) == Zip(<<Entry("[Content_Types].xml", PartData("[Content_Types].xml")),
                       Entry(DOC, tostring(t))>>)

SampleSources == { Tree(<<<<El("pgSz", 0), SrcPg>>>>, <<>>),
                   Tree(<<<<El("pgSz", 0)>>>>, <<>>) }
SampleTargets == { Tree(<<<<El("pgSz", 0), OldPg, El("cols", 0)>>>>, <<<<El("cols", 0)>>>>),
                   Tree(<<<<El("pgSz", 0)>>>>, <<>>),
                   Tree(<<>>, <<>>) }
SampleNames == <<"[Content_Types].xml", DOC, "word/styles.xml">>
StaleTmp == [exists |-> TRUE, closed |-> FALSE, entries |-> <<Entry(DOC, <<>>)>>]

PatchStart(f) ==
    /\ ppc = "extract"
    /\ fs = f
    /\ fs0 = f
    /\ pg = NoneEl
    /\ root = Tree(<<>>, <<>>)
    /\ zpos = 0
    /\ ret = "none"
    /\ hist = <<>>
    /\ runs = 1

Files(s, o, t) == [p \in Paths |-> IF p = SOURCE THEN s ELSE IF p = OUTPUT THEN o ELSE t]

PipelineAt(at) ==
    /\ tpc = at
    /\ exc = "none"
    /\ host = "none"
    /\ quit_attempts = 0
    /\ quit_failed = FALSE
    /\ docs = {}
    /\ styles_seen = 0
    /\ moved = 0
    /\ ncopied = 0
    /\ styles_done = FALSE
    /\ fallback_entered = FALSE
    /\ sec = 1
    /\ layout = [i \in 1..tgt_count |-> NoLayout]
    /\ last_fault = {}
    /\ last_skipped = {}
    /\ tmpfiles = {}
    /\ output_written = FALSE
    /\ patched = "none"

PipelineIdle ==
    /\ section_map = FALSE
    /\ src_count = 1
    /\ tgt_count = 1
    /\ n_styles = 0
    /\ source_exists = TRUE
    /\ target_exists = TRUE
    /\ flaky = {}
    /\ PipelineAt("idle")

ConcurrentAt(at) ==
    /\ cpc = [r \in Runs |-> at]
    /\ cexc = [r \in Runs |-> "none"]
    /\ tempdir = [n \in TempNames |-> 0]
    /\ output_docx = [r \in Runs |-> 0]
    /\ styles_from = [r \in Runs |-> 0]
    /\ foreign = [r \in Runs |-> {}]

ConcurrentIdle == ConcurrentAt("idle")

InitConcurrent ==
    /\ InsertIdle
    /\ PatchIdle
    /\ PipelineIdle
    /\ ConcurrentAt("start")

InitInsert ==
    /\ ipc = "call"
    /\ sectpr \in SeqsUpTo(PlainElems \cup {OldPg}, MaxChildren)
    /\ children = <<>>
    /\ insert_idx = 0
    /\ PatchIdle
    /\ PipelineIdle
    /\ ConcurrentIdle

\* One field of each kind of protection: a plain page-setup assignment, a
\* guarded page-setup attribute, a border line property and a header slot.
SampleFlaky == { It("PageSetup", 0, "TopMargin"), It("PageSetup", 0, "MirrorMargins"),
                 It("Borders", 1, "LineStyle"), It("Headers", 1, "Range") }

InitPipeline ==
    /\ InsertIdle
    /\ ConcurrentIdle
    /\ PatchIdle
    /\ section_map \in BOOLEAN
    /\ src_count = 1
    /\ tgt_count \in {1, 2}
    /\ n_styles \in 0..MaxStyles
    /\ source_exists \in BOOLEAN
    /\ target_exists \in BOOLEAN
    /\ flaky = SampleFlaky
    /\ PipelineAt("validate")

InitLayout ==
    /\ InsertIdle
    /\ ConcurrentIdle
    /\ PatchIdle
    /\ section_map \in BOOLEAN
    /\ src_count \in 1..MaxSrcSections
    /\ tgt_count \in 1..MaxTgtSections
    /\ n_styles = 1
    /\ source_exists = TRUE
    /\ target_exists = TRUE
    /\ flaky = LayoutItems
    /\ PipelineAt("validate")

InitPatch ==
    /\ InsertIdle
    /\ ConcurrentIdle
    /\ PipelineIdle
    /\ \E b \in SeqsUpTo(TgtSectPrs, 1), p \in SeqsUpTo(TgtSectPrs, MaxTgtPara) :
           PatchStart(Files(SourceWith(Tree(<<<<El("pgSz", 0), SrcPg>>>>, <<>>)),
                            Archive(SampleNames, Tree(b, p)), NoFile))

InitArchive ==
    /\ InsertIdle
    /\ ConcurrentIdle
    /\ PipelineIdle
    /\ \E s \in SampleSources, n \in NameLists, t \in SampleTargets,
          tmp \in {NoFile, StaleTmp} :
           PatchStart(Files(SourceWith(s), Archive(n, t), tmp))

InitExtract ==
    /\ InsertIdle
    /\ ConcurrentIdle
    /\ PipelineIdle
    /\ \E b \in SeqsUpTo(SrcSectPrs, 1), p \in SeqsUpTo(SrcSectPrs, MaxSrcPara),
          t \in SampleTargets :
           PatchStart(Files(SourceWith(Tree(b, p)), Archive(SampleNames, t), NoFile))

\* ------------------------------------------------------------ specifications
InsertCall ==
    /\ ipc = "call"
    /\ children' = RemoveExisting(sectpr)
    /\ insert_idx' = InsertIdx(RemoveExisting(sectpr))
    /\ sectpr' = InsertPgBorders(sectpr, SrcPg)
    /\ ipc' = "done"
    /\ UNCHANGED <<pvars, tvars, cvars>>

NextInsert == InsertCall

NextPatch ==
    \/ PatchExtract
    \/ PatchReadTarget
    \/ PatchOpenTmp
    \/ PatchWriteEntry
    \/ PatchCloseTmp
    \/ PatchReplace
    \/ PatchIOError
    \/ PatchAgain

NextPipeline ==
    \/ TValidate
    \/ TDispatch
    \/ TVisible
    \/ TConfig
    \/ TOpenSrc
    \/ TOpenTgt
    \/ TSaveCopy
    \/ TCloseTgt
    \/ TOpenWork
    \/ TStyle
    \/ TStylesEnd
    \/ TFallback
    \/ TLayoutSection
    \/ TSave
    \/ TFinallyInner
    \/ TFinallyOuter
    \/ TPatch

NextConcurrent ==
    \E r \in Runs :
        \/ CStart(r)
        \/ CStyles(r)
        \/ CFallbackSave(r)
        \/ CFallbackCopy(r)
        \/ CFallbackRemove(r)
        \/ CLayoutSave(r)
        \/ CPrePatchSave(r)
        \/ CPrePatchCopy(r)
        \/ CClose(r)
        \/ CPatch(r)

SpecInsert  == InitInsert /\ [][NextInsert]_vars
SpecPatch   == InitPatch /\ [][NextPatch]_vars
SpecArchive == InitArchive /\ [][NextPatch]_vars
SpecExtract == InitExtract /\ [][NextPatch]_vars
SpecPipeline == InitPipeline /\ [][NextPipeline]_vars
SpecLayout  == InitLayout /\ [][NextPipeline]_vars
SpecConcurrent == InitConcurrent /\ [][NextConcurrent]_vars

\* -------------------------------------------------------------- properties
\* ---- the insertion
AfterPositions  == {i \in 0..(Len(children) - 1) : children[i + 1].tag \in after_tags}
BeforePositions == {i \in 0..(Len(children) - 1) : children[i + 1].tag \in before_tags}
MaxOf(S) == CHOOSE m \in S : \A x \in S : x <= m
MinOf(S) == CHOOSE m \in S : \A x \in S : m <= x

DocOf(f) == fromstring(ZipRead(f, DOC))
SectPrsOf(t) == {t.body[i] : i \in 1..Len(t.body)} \cup {t.para[i] : i \in 1..Len(t.para)}
PgCount(sp) == Cardinality({i \in 1..Len(sp) : sp[i].tag = "pgBorders"})

\* C2: after any number of applications with the same source every sectPr
\* of the target, body-level and paragraph-level, has at most one pgBorders
\* child, and each further application leaves the same tree as the one before.
C2_Idempotent ==
    /\ \A k \in 1..Len(hist) : \A sp \in SectPrsOf(DocOf(hist[k])) : PgCount(sp) <= 1
    /\ \A k \in 1..(Len(hist) - 1) : DocOf(hist[k + 1]) = DocOf(hist[k])

C2_Witness ==
    /\ Len(hist) = 2
    /\ DocOf(hist[2]).body # <<>>
    /\ DocOf(hist[2]).para # <<>>
    /\ \E sp \in SectPrsOf(DocOf(hist[2])) : Len(sp) = 3 /\ sp[2] = SrcPg

NoPgInSource ==
    /\ ppc # "idle"
    /\ \A sp \in SectPrsOf(DocOf(fs[SOURCE])) : PgCount(sp) = 0

\* C3: when no sectPr of the source holds a pgBorders element the patcher
\* returns False whenever it returns, never reaches the steps that open the
\* target or write a file, and leaves every file as it was.
C3_NoFragmentNoChange ==
    NoPgInSource =>
        /\ ppc \in {"extract", "done", "raised"}
        /\ ppc = "done" => ret = "False"
        /\ fs = fs0
        /\ hist = <<>>

C3_Witness ==
    /\ NoPgInSource
    /\ ppc = "done" /\ ret = "False"
    /\ Len(DocOf(fs[SOURCE]).para) = 2
    /\ DocOf(fs[SOURCE]).body # <<>>
    /\ DocOf(fs[OUTPUT]).body # <<>>

Returned == ppc = "done" /\ ret = "True"

\* C4: after a patch that returned True the archive has the entries of the
\* archive before the patch, in the same order, and every entry other than
\* word/document.xml has the data it had.
C4_OtherPartsIdentical ==
    Returned =>
        /\ Len(fs[OUTPUT].entries) = Len(fs0[OUTPUT].entries)
        /\ \A i \in 1..Len(fs0[OUTPUT].entries) :
              /\ fs[OUTPUT].entries[i].name = fs0[OUTPUT].entries[i].name
              /\ fs0[OUTPUT].entries[i].name # DOC =>
                     fs[OUTPUT].entries[i].data = fs0[OUTPUT].entries[i].data

C4_Witness ==
    /\ Returned
    /\ Len(fs[OUTPUT].entries) = 3
    /\ fs[OUTPUT].entries[2].name = DOC
    /\ fs[OUTPUT].entries[2].data # fs0[OUTPUT].entries[2].data

\* A complete package that is the rewrite of `old` with fragment `frag`.
IsRewriteOf(new, old, frag) ==
    /\ new.exists /\ new.closed
    /\ Len(new.entries) = Len(old.entries)
    /\ \A i \in 1..Len(old.entries) : new.entries[i].name = old.entries[i].name
    /\ \A sp \in SectPrsOf(DocOf(new)) : \E i \in 1..Len(sp) : sp[i] = frag

\* C5: at every step of the patcher, failures included, the file at the
\* target path is the complete original package or the complete new one;
\* when the patcher has failed it is the original.
C5_TargetNeverPartial ==
    ppc # "idle" =>
        /\ \/ fs[OUTPUT] = fs0[OUTPUT]
           \/ Returned /\ IsRewriteOf(fs[OUTPUT], fs0[OUTPUT], pg)
        /\ ppc = "raised" => fs[OUTPUT] = fs0[OUTPUT]

C5_Witness ==
    /\ ppc = "raised"
    /\ fs[TMP].exists
    /\ Len(fs[TMP].entries) > 0
    /\ Len(fs[TMP].entries) < Len(fs[OUTPUT].entries)
    /\ fs[OUTPUT] = fs0[OUTPUT]
    /\ ZipReadable(fs[OUTPUT])

\* ---- the pipeline
Sections == 1..tgt_count

C7_Original ==
    \A i \in Sections :
        (tpc # "idle" /\ section_map /\ i > src_count /\ layout[i].ps # 0)
            => layout[i].ps = src_count

\* C8 (as stated): when the copy of one field, flag, border or slot raises
\* during the layout of a section, the pipeline does not fail because of it
\* and the remaining sub-copies of that section still run.
C8_Original ==
    last_fault # {} =>
        /\ exc = "none"
        /\ layout[sec - 1].bd # 0
        /\ layout[sec - 1].hf # 0

StylesDecided == styles_done /\ tpc \notin {"styles", "fallback"}

\* C9: copy_styles_via_template is entered only after the organizer loop has
\* visited every style with no OrganizerCopy having returned, and it is
\* entered whenever that is so; a run that ends before the loop has visited
\* every style failed before the loop started.
C9_FallbackIffNoneMoved ==
    tpc # "idle" =>
        /\ fallback_entered => (styles_done /\ ncopied = 0)
        /\ StylesDecided => (fallback_entered <=> ncopied = 0)
        /\ styles_done => styles_seen = n_styles
        /\ (~styles_done /\ tpc \in {"finally_inner", "finally_outer", "raised"})
               => styles_seen = 0

C9_Witness ==
    /\ tpc = "returned"
    /\ styles_seen = 2
    /\ ncopied = 1
    /\ ~fallback_entered

\* C10 (as stated): once the host has been acquired, every exit of the run
\* has attempted word.Quit(), and the error of the run is never the quit's.
C10_Original ==
    (tpc \in {"raised", "returned"} /\ host # "none") =>
        /\ quit_attempts >= 1
        /\ exc # "Quit"

RunEnded == tpc \in {"raised", "returned"}

\* C11 (as stated): when a run ends, with a result or with an error, none of
\* the temporary files it created exists any more: not the style template
\* snapshot, not the pre-patch save file, not the patcher's sibling archive.
C11_Original ==
    RunEnded =>
        /\ TEMP_PREPATCH \notin tmpfiles
        /\ TEMP_DOTX \notin tmpfiles
        /\ TEMP_ARCHIVE \notin tmpfiles

PathMissing == ~source_exists \/ ~target_exists

\* C12: when the source path or the target path is not an existing file, the
\* run ends with FileNotFoundError before any host interaction: no host is
\* acquired or quit, no document is opened, no output or temporary file is
\* written, and no later step of the pipeline is entered.
C12_MissingPathFailsFirst ==
    (tpc # "idle" /\ PathMissing) =>
        /\ tpc \in {"validate", "raised"}
        /\ tpc = "raised" => exc = "FileNotFoundError"
        /\ host = "none"
        /\ quit_attempts = 0
        /\ docs = {}
        /\ tmpfiles = {}
        /\ ~output_written
        /\ patched = "none"
        /\ styles_seen = 0
        /\ \A i \in 1..tgt_count : layout[i] = NoLayout

C12_Witness ==
    /\ tpc = "raised"
    /\ exc = "FileNotFoundError"
    /\ source_exists
    /\ ~target_exists

\* the paragraph-level sectPrs of t that hold a pgBorders child
ParasWithPg(t) == {i \in 1..Len(t.para) : FindPg(t.para[i]) # NoneEl}

LastParaFragment(t) ==
    IF ParasWithPg(t) = {} THEN NoneEl
    ELSE FindPg(t.para[MaxOf(ParasWithPg(t))])

BodyLastHasNoPg(t) ==
    /\ t.body # <<>>
    /\ FindPg(t.body[Len(t.body)]) = NoneEl

Extracted == ppc \notin {"idle", "extract", "raised"}

\* C13 (as stated): when the last body-level sectPr of the source has no
\* pgBorders, the extraction yields the pgBorders of the last paragraph-level
\* sectPr among those that hold one, and yields nothing only when no
\* paragraph-level sectPr holds one.
C13_Original ==
    (Extracted /\ BodyLastHasNoPg(DocOf(fs[SOURCE]))) =>
        pg = LastParaFragment(DocOf(fs[SOURCE]))

\* C14 (as stated): two runs side by side, each with its own host and its own
\* output path, share no file: neither reads, overwrites or deletes a file the
\* other wrote, and what each run leaves at its output path and takes its
\* styles from is its own, as when it runs alone.
C14_Original ==
    \A r \in Runs :
        /\ foreign[r] = {}
        /\ output_docx[r] \in {0, r}
        /\ styles_from[r] \in {0, r}
====
